---- MODULE Spec2Model ----
(***************************************************************************)
(* Model of NoDynamicBase.cpp: the PE header patcher                        *)
(* fix_pe_clear_dynamic_base and its caller process_file.                   *)
(*                                                                          *)
(* Memory is a function from byte addresses, relative to the start of the  *)
(* malloc'ed buffer, to bytes.  Addresses 0..size-1 are the buffer;         *)
(* addresses HeapLo..-1 are whatever lies in the heap in front of it, which *)
(* the program reaches when it adds a negative e_lfanew to the buffer       *)
(* pointer.                                                                 *)
(***************************************************************************)
EXTENDS Integers, Sequences, FiniteSets, TLC

VARIABLES mem, size, prev, res, prevRes, calls, accessed, pc,
          disk, bak, msg, drops

vars == <<mem, size, prev, res, prevRes, calls, accessed, pc,
          disk, bak, msg, drops>>

----------------------------------------------------------------------------
(* Bounds of the model *)

\* largest file length drawn
MaxSize == 400
\* calls of the patcher on one buffer
MaxCalls == 2
\* files dropped on the window in one run
MaxDrops == 2

----------------------------------------------------------------------------
(* Constants of the program and of the structures it overlays *)

IMAGE_DLLCHARACTERISTICS_DYNAMIC_BASE == 64
\* sizeof(IMAGE_DOS_HEADER)
DosHeaderSize == 64
\* sizeof(IMAGE_NT_HEADERS64) = 4 + 20 + 240
NtHeaders64Size == 264
\* sizeof(IMAGE_NT_HEADERS32) = 4 + 20 + 224
NtHeaders32Size == 248
\* e_lfanew of the files drawn whose NT headers follow the DOS header
TypicalLfanew == DosHeaderSize
\* "MZ" read as a little-endian WORD, 0x5A4D
IMAGE_DOS_SIGNATURE == 23117
\* low WORD of 0x00004550, "PE\0\0"
IMAGE_NT_SIGNATURE_LO == 17744
IMAGE_NT_OPTIONAL_HDR64_MAGIC == 523
IMAGE_NT_OPTIONAL_HDR32_MAGIC == 267
\* offsetof(IMAGE_DOS_HEADER, e_lfanew)
LfanewOffset == 60
\* offsetof(IMAGE_NT_HEADERS64, OptionalHeader.Magic) = 4 + 20
MagicOffset == 24
\* offsetof(IMAGE_NT_HEADERS64, OptionalHeader.DllCharacteristics) = 24 + 70
DllCharacteristicsOffset64 == 94
\* offsetof(IMAGE_NT_HEADERS32, OptionalHeader.DllCharacteristics) = 24 + 70
DllCharacteristicsOffset32 == 94

\* a DWORD is kept as <<low WORD, high WORD>>
IMAGE_NT_SIGNATURE == <<IMAGE_NT_SIGNATURE_LO, 0>>

\* lowest address the patcher can reach: e_lfanew >= -sizeof(IMAGE_NT_HEADERS64)
HeapLo == 0 - NtHeaders64Size

----------------------------------------------------------------------------
(* Reads and writes through the overlaid structures *)

\* the byte at address i; every address the program reaches is in DOMAIN m
\* (AccessModelled below)
Rd(m, i) == IF i \in DOMAIN m THEN m[i] ELSE 0

ReadWord(m, i) == Rd(m, i) + 256 * Rd(m, i + 1)

ReadDword(m, i) == <<ReadWord(m, i), ReadWord(m, i + 2)>>

\* a LONG: the 32-bit two's complement value of the 4 bytes at i
ReadLong(m, i) ==
    LET lo == ReadWord(m, i)
        hi == ReadWord(m, i + 2)
    IN  lo + 65536 * (IF hi >= 32768 THEN hi - 65536 ELSE hi)

WriteWord(m, i, v) ==
    [j \in DOMAIN m |-> IF j = i THEN v % 256
                        ELSE IF j = i + 1 THEN v \div 256
                        ELSE m[j]]

RECURSIVE BitAnd(_, _, _)
\* a & b over the low n bits
BitAnd(a, b, n) ==
    IF n = 0 THEN 0
    ELSE (a % 2) * (b % 2) + 2 * BitAnd(a \div 2, b \div 2, n - 1)

\* the mask applied without its complement
ClearDynamicBase_NoComplement(old) ==
    BitAnd(old, IMAGE_DLLCHARACTERISTICS_DYNAMIC_BASE, 16)

\* (WORD)(old & ~IMAGE_DLLCHARACTERISTICS_DYNAMIC_BASE)
ClearDynamicBase(old) ==
    BitAnd(old, 65535 - IMAGE_DLLCHARACTERISTICS_DYNAMIC_BASE, 16)

HasDynamicBase(old) ==
    BitAnd(old, IMAGE_DLLCHARACTERISTICS_DYNAMIC_BASE, 16) # 0

----------------------------------------------------------------------------
(* fix_pe_clear_dynamic_base *)

\* the length check one byte short
TooSmall_OffByOne(sz) == sz < DosHeaderSize - 1

TooSmall(sz) == sz < DosHeaderSize

\* (size_t)e + sizeof(IMAGE_NT_HEADERS64) > size.  e is a LONG, so the cast
\* sign-extends; the sum is taken modulo the width of size_t, and for
\* -264 <= e < 0 it wraps round to e + 264.  size is below 2^31 (it comes
\* from ftell), so every unwrapped sum of a negative e exceeds it.
LfanewOutOfRange(e, sz) ==
    IF e >= 0 THEN e > sz - NtHeaders64Size
    ELSE IF e + NtHeaders64Size >= 0 THEN e + NtHeaders64Size > sz
    ELSE TRUE

\* the PE32 field taken to lie 4 bytes before the PE32+ one
DllCharacteristicsOffset_Shifted(magic) ==
    IF magic = IMAGE_NT_OPTIONAL_HDR64_MAGIC THEN DllCharacteristicsOffset64
    ELSE DllCharacteristicsOffset64 - 4

DllCharacteristicsOffset(magic) ==
    IF magic = IMAGE_NT_OPTIONAL_HDR64_MAGIC THEN DllCharacteristicsOffset64
    ELSE DllCharacteristicsOffset32

Failure(m, why, acc) ==
    [ok |-> FALSE, modified |-> FALSE, reason |-> why, mem |-> m, accessed |-> acc]

Success(m, mod, acc) ==
    [ok |-> TRUE, modified |-> mod, reason |-> "", mem |-> m, accessed |-> acc]

\* the branch taken for a recognised magic: read the field, clear the bit
ClearFlagAt(m, off, acc) ==
    LET old == ReadWord(m, off)
        acc2 == acc \cup {off, off + 1}
    IN  IF HasDynamicBase(old)
        THEN Success(WriteWord(m, off, ClearDynamicBase(old)), TRUE, acc2)
        ELSE Success(m, FALSE, acc2)

fix_pe_clear_dynamic_base(m, sz) ==
    IF TooSmall(sz) THEN Failure(m, "file too small", {})
    ELSE LET acc1 == {0, 1} IN
    IF ReadWord(m, 0) # IMAGE_DOS_SIGNATURE
    THEN Failure(m, "not a PE file (MZ missing)", acc1)
    ELSE LET e == ReadLong(m, LfanewOffset)
             acc2 == acc1 \cup (LfanewOffset..(LfanewOffset + 3)) IN
    IF LfanewOutOfRange(e, sz) THEN Failure(m, "invalid e_lfanew", acc2)
    ELSE LET acc3 == acc2 \cup (e..(e + 3)) IN
    IF ReadDword(m, e) # IMAGE_NT_SIGNATURE
    THEN Failure(m, "PE signature missing", acc3)
    ELSE LET magic == ReadWord(m, e + MagicOffset)
             acc4 == acc3 \cup {e + MagicOffset, e + MagicOffset + 1} IN
    IF magic = IMAGE_NT_OPTIONAL_HDR64_MAGIC \/ magic = IMAGE_NT_OPTIONAL_HDR32_MAGIC
    THEN ClearFlagAt(m, e + DllCharacteristicsOffset(magic), acc4)
    ELSE Failure(m, "unknown PE optional header type", acc4)

----------------------------------------------------------------------------
(* The memory images the runs start from *)

\* 10 bytes; one byte short of a DOS header; a bare DOS header; a file that
\* holds IMAGE_NT_HEADERS32 at offset 64 but not IMAGE_NT_HEADERS64; one that
\* just holds IMAGE_NT_HEADERS64 there; the largest
Sizes == {10, DosHeaderSize - 1, DosHeaderSize, TypicalLfanew + NtHeaders32Size,
          TypicalLfanew + NtHeaders64Size, MaxSize}

\* values of the e_lfanew field, as the LONG it is read as
Lfanews == {0, 4, TypicalLfanew, MaxSize - NtHeaders64Size, MaxSize - NtHeaders64Size + 1,
            2147483647, -4, -31, -34, -94, -100, -264, -265, -2147483647 - 1}

Magics == {IMAGE_NT_OPTIONAL_HDR64_MAGIC, IMAGE_NT_OPTIONAL_HDR32_MAGIC, 263}

\* 0x0140, 0x0100, 0x0040, 0xFFFF
DllValues == {320, 256, 64, 65535}

\* the fill byte of a file of sz bytes: the 10-byte file is all zeros, the
\* others carry 0xCC wherever no header field lies
Fill(sz) == IF sz < DosHeaderSize - 1 THEN 0 ELSE 204

\* byte k (0..3) of the 32-bit two's complement encoding of e
LongByte(e, k) ==
    LET p == IF k = 0 THEN 1 ELSE IF k = 1 THEN 256 ELSE IF k = 2 THEN 65536 ELSE 16777216
    IN  IF e >= 0 THEN (e \div p) % 256
        ELSE 255 - (((0 - (e + 1)) \div p) % 256)

\* a file of sz bytes (and the heap in front of its buffer): fill bytes, an
\* NT header image laid at offset e, then the DOS signature and e_lfanew
MakeMem(sz, mz, e, sigOK, magic, dll) ==
    LET near == e \in HeapLo..MaxSize
        fill == Fill(sz)
        d(i) == IF near THEN i - e ELSE -1
    IN  [i \in HeapLo..(sz - 1) |->
            IF i = 0 THEN (IF mz THEN 77 ELSE fill)
            ELSE IF i = 1 THEN (IF mz THEN 90 ELSE fill)
            ELSE IF i \in LfanewOffset..(LfanewOffset + 3) THEN LongByte(e, i - LfanewOffset)
            ELSE IF d(i) = 0 THEN 80
            ELSE IF d(i) = 1 THEN 69
            ELSE IF d(i) = 2 THEN 0
            ELSE IF d(i) = 3 THEN (IF sigOK THEN 0 ELSE 1)
            ELSE IF d(i) = MagicOffset THEN magic % 256
            ELSE IF d(i) = MagicOffset + 1 THEN magic \div 256
            ELSE IF d(i) = DllCharacteristicsOffset64 THEN dll % 256
            ELSE IF d(i) = DllCharacteristicsOffset64 + 1 THEN dll \div 256
            ELSE fill]

Buffer(m, sz) == [i \in 0..(sz - 1) |-> m[i]]

NoResult == [ok |-> FALSE, modified |-> FALSE, reason |-> ""]

NoBak == [exists |-> FALSE, data |-> <<>>]

NoMsg == [text |-> "", arg |-> ""]

----------------------------------------------------------------------------
(* The patcher called on a buffer, MaxCalls times *)

InitPatch ==
    /\ \E sz \in Sizes, mz \in BOOLEAN, e \in Lfanews, sigOK \in BOOLEAN,
          magic \in Magics, dll \in DllValues :
            /\ mem = MakeMem(sz, mz, e, sigOK, magic, dll)
            /\ size = sz
    /\ prev = mem
    /\ res = NoResult
    /\ prevRes = NoResult
    /\ calls = 0
    /\ accessed = {}
    /\ pc = "ready"
    /\ disk = <<>>
    /\ bak = NoBak
    /\ msg = NoMsg
    /\ drops = 0

OutOfBuffer(acc, sz) == \E i \in acc : i < 0 \/ i >= sz

DoCall ==
    LET r == fix_pe_clear_dynamic_base(mem, size)
    IN  /\ mem' = r.mem
        /\ prev' = mem
        /\ res' = [ok |-> r.ok, modified |-> r.modified, reason |-> r.reason]
        /\ prevRes' = res
        /\ accessed' = r.accessed
        /\ calls' = calls + 1

\* the call's access outside the buffer faults: no result is returned
DoFault ==
    LET r == fix_pe_clear_dynamic_base(mem, size)
    IN  /\ OutOfBuffer(r.accessed, size)
        /\ pc' = "crashed"
        /\ accessed' = r.accessed
        /\ calls' = calls + 1
        /\ prev' = mem
        /\ prevRes' = res
        /\ UNCHANGED <<mem, res>>

PatchCall ==
    /\ pc = "ready"
    /\ calls < MaxCalls
    /\ DoCall
    /\ UNCHANGED <<size, pc, disk, bak, msg, drops>>

PatchFault ==
    /\ pc = "ready"
    /\ calls < MaxCalls
    /\ DoFault
    /\ UNCHANGED <<size, disk, bak, msg, drops>>

NextPatch == PatchCall \/ PatchFault

SpecPatch == InitPatch /\ [][NextPatch]_vars

----------------------------------------------------------------------------
(* The program: a file dropped on the window goes through process_file *)

FileSizes == {10, TypicalLfanew + NtHeaders64Size, MaxSize}

Init ==
    /\ \E sz \in FileSizes, mz \in BOOLEAN, e \in Lfanews, sigOK \in BOOLEAN,
          magic \in Magics, dll \in DllValues :
            /\ mem = MakeMem(sz, mz, e, sigOK, magic, dll)
            /\ size = sz
    /\ disk = Buffer(mem, size)
    /\ prev = mem
    /\ res = NoResult
    /\ prevRes = NoResult
    /\ calls = 0
    /\ accessed = {}
    /\ pc = "idle"
    /\ bak = NoBak
    /\ msg = NoMsg
    /\ drops = 0

\* WndProc, WM_DROPFILES: DragQueryFileW yields the path or fails
DropFiles ==
    /\ pc = "idle"
    /\ drops < MaxDrops
    /\ drops' = drops + 1
    /\ \E got \in BOOLEAN :
          IF got
          THEN /\ pc' = "read"
               /\ msg' = NoMsg
               /\ res' = NoResult
          ELSE UNCHANGED <<pc, msg, res>>
    /\ UNCHANGED <<mem, size, prev, prevRes, calls, accessed, disk, bak>>

\* read_file_all and the branch of process_file on its result
ReadFile ==
    /\ pc = "read"
    /\ \E ok \in BOOLEAN :
          IF ok
          THEN /\ mem' = [i \in DOMAIN mem |-> IF i >= 0 THEN disk[i] ELSE mem[i]]
               /\ pc' = "fix"
               /\ UNCHANGED msg
          ELSE /\ msg' = [text |-> "Failed to read file:\n%s", arg |-> "path"]
               /\ pc' = "idle"
               /\ UNCHANGED mem
    /\ UNCHANGED <<size, prev, res, prevRes, calls, accessed, disk, bak, drops>>

\* process_file without its test of modified
AfterFix_NoModifiedTest(r) ==
    IF ~r.ok THEN [pc |-> "idle", msg |-> [text |-> "Error: %s", arg |-> r.reason]]
    ELSE [pc |-> "backup", msg |-> NoMsg]

\* what process_file does with the patcher's result
AfterFix(r) ==
    IF ~r.ok THEN [pc |-> "idle", msg |-> [text |-> "Error: %s", arg |-> r.reason]]
    ELSE IF ~r.modified
    THEN [pc |-> "idle", msg |-> [text |-> "No change needed (already fixed)", arg |-> ""]]
    ELSE [pc |-> "backup", msg |-> NoMsg]

Fix ==
    /\ pc = "fix"
    /\ DoCall
    /\ pc' = AfterFix(fix_pe_clear_dynamic_base(mem, size)).pc
    /\ msg' = AfterFix(fix_pe_clear_dynamic_base(mem, size)).msg
    /\ UNCHANGED <<size, disk, bak, drops>>

FixFault ==
    /\ pc = "fix"
    /\ DoFault
    /\ UNCHANGED <<size, disk, bak, msg, drops>>

\* write_file_all: CopyFileW(path, bak, FALSE), its result not looked at
Backup ==
    /\ pc = "backup"
    /\ \E copied \in BOOLEAN :
          bak' = IF copied THEN [exists |-> TRUE, data |-> disk] ELSE bak
    /\ pc' = "open"
    /\ UNCHANGED <<mem, size, prev, res, prevRes, calls, accessed, disk, msg, drops>>

\* write_file_all: _wfopen(path, L"rb+"), and process_file's "Write failed"
OpenForWrite ==
    /\ pc = "open"
    /\ \E opened \in BOOLEAN :
          IF opened
          THEN /\ pc' = "write"
               /\ UNCHANGED msg
          ELSE /\ pc' = "idle"
               /\ msg' = [text |-> "Write failed (permission or file in use)", arg |-> ""]
    /\ UNCHANGED <<mem, size, prev, res, prevRes, calls, accessed, disk, bak, drops>>

\* the byte counts fwrite may get onto storage
WriteCounts(sz) == {0, DosHeaderSize, sz}

\* write_file_all: fwrite of the buffer from offset 0, its result not looked
\* at; then process_file reports success
WriteAll ==
    /\ pc = "write"
    /\ \E k \in WriteCounts(size) :
          disk' = [i \in DOMAIN disk |-> IF i < k THEN mem[i] ELSE disk[i]]
    /\ msg' = [text |-> "Success! DYNAMIC_BASE cleared. Backup: %s.bak", arg |-> "path"]
    /\ pc' = "idle"
    /\ UNCHANGED <<mem, size, prev, res, prevRes, calls, accessed, bak, drops>>

Next == DropFiles \/ ReadFile \/ Fix \/ FixFault \/ Backup \/ OpenForWrite \/ WriteAll

Spec == Init /\ [][Next]_vars

----------------------------------------------------------------------------
(* The properties *)

\* the last call of the patcher returned
Returned == pc = "ready" /\ calls >= 1

\* e_lfanew of the buffer the last call was given
LfanewBefore == ReadLong(prev, LfanewOffset)

\* the magic of the buffer the last call was given
MagicBefore == ReadWord(prev, LfanewBefore + MagicOffset)

\* where the PE format puts DllCharacteristics, for both widths
FieldBefore == LfanewBefore + 94

\* the buffer bytes the last call changed
Changed == {i \in 0..(size - 1) : mem[i] # prev[i]}

Bit6(w) == (w \div 64) % 2 = 1

\* C1: when the patcher returns success with modified = true, the buffer
\* keeps its length, the only bytes of it that differ are the 2 bytes of the
\* DllCharacteristics field, and the DOS header with e_lfanew, the PE
\* signature and the magic are what they were before the call.
C1_ByteExactLocality ==
    (Returned /\ res.ok /\ res.modified) =>
        /\ DOMAIN mem = DOMAIN prev
        /\ DOMAIN mem = HeapLo..(size - 1)
        /\ Changed \subseteq {FieldBefore, FieldBefore + 1}
        /\ \A i \in 0..63 : mem[i] = prev[i]
        /\ ReadDword(mem, LfanewBefore) = ReadDword(prev, LfanewBefore)
        /\ ReadWord(mem, LfanewBefore + 24) = MagicBefore

\* C2: when the patcher returns success, the DllCharacteristics field holds
\* its old value with bit 0x0040 cleared and the other 15 bits kept, and
\* modified tells whether the old value had the bit.
C2_FlagCleared ==
    (Returned /\ res.ok) =>
        LET old == ReadWord(prev, FieldBefore)
            new == ReadWord(mem, FieldBefore)
        IN  /\ new = (IF Bit6(old) THEN old - 64 ELSE old)
            /\ ~Bit6(new)
            /\ res.modified = Bit6(old)

C2_Witness ==
    /\ Returned /\ res.ok /\ res.modified
    /\ MagicBefore = IMAGE_NT_OPTIONAL_HDR64_MAGIC
    /\ LfanewBefore >= 0
    /\ ReadWord(prev, FieldBefore) = 320
    /\ ReadWord(mem, FieldBefore) = 256

\* C3: after a call that succeeded, a second call on the resulting buffer,
\* once it has returned, has succeeded too, reports modified = false and has
\* changed no byte of the buffer.
C3_Idempotent ==
    (Returned /\ calls = 2 /\ prevRes.ok) =>
        /\ res.ok
        /\ ~res.modified
        /\ Changed = {}

\* every byte of the modelled memory the last call changed
ChangedMem == {i \in DOMAIN mem : mem[i] # prev[i]}

\* C4 as stated, for NT headers that lie in the buffer: the flag of a PE32
\* buffer is cleared 4 bytes before the place where the flag of a PE32+
\* buffer with the same e_lfanew is cleared.
C4_Pe32FourBytesEarlier ==
    (Returned /\ res.ok /\ res.modified /\ LfanewBefore >= 0) =>
        /\ MagicBefore = IMAGE_NT_OPTIONAL_HDR64_MAGIC => ChangedMem = {LfanewBefore + 94}
        /\ MagicBefore = IMAGE_NT_OPTIONAL_HDR32_MAGIC => ChangedMem = {LfanewBefore + 94 - 4}

\* C4 amended: for the same e_lfanew the flag of a PE32 buffer and the flag
\* of a PE32+ buffer are cleared at the same offset, e_lfanew + 94.
C4_SameOffset ==
    (Returned /\ res.ok /\ res.modified) =>
        /\ MagicBefore = IMAGE_NT_OPTIONAL_HDR64_MAGIC => ChangedMem = {LfanewBefore + 94}
        /\ MagicBefore = IMAGE_NT_OPTIONAL_HDR32_MAGIC => ChangedMem = {LfanewBefore + 94}

C4_Witness ==
    /\ Returned /\ res.ok /\ res.modified
    /\ MagicBefore = IMAGE_NT_OPTIONAL_HDR32_MAGIC
    /\ LfanewBefore = 4
    /\ ChangedMem = {98}
    /\ Bit6(prev[94])

\* e_lfanew, read as an unsigned 32-bit integer, plus 264 exceeds the length
UnsignedLfanewOutOfRange(e, sz) == e < 0 \/ e > sz - 264

\* C5: a buffer of at least 64 bytes that starts with "MZ" and whose
\* e_lfanew, read as an unsigned 32-bit integer, plus 264 exceeds the length
\* fails with "invalid e_lfanew", whatever its magic.
C5_InvalidHeaderOffset ==
    ( /\ calls >= 1
      /\ size >= 64
      /\ prev[0] = 77 /\ prev[1] = 90
      /\ UnsignedLfanewOutOfRange(LfanewBefore, size) ) =>
        /\ pc = "ready"
        /\ ~res.ok
        /\ res.reason = "invalid e_lfanew"

\* C6: every byte a call reads or writes has an index in [0, size), and the
\* call returns.
C6_AccessInBounds ==
    /\ accessed \subseteq 0..(size - 1)
    /\ pc # "crashed"

\* C7: on a buffer shorter than 64 bytes the patcher fails with "file too
\* small", reports modified = false and changes nothing.
C7_TooSmall ==
    (calls >= 1 /\ size < 64) =>
        /\ pc = "ready"
        /\ ~res.ok
        /\ res.reason = "file too small"
        /\ ~res.modified
        /\ mem = prev
        /\ accessed = {}

C7_Witness ==
    /\ Returned
    /\ size = 10
    /\ \A i \in 0..9 : prev[i] = 0 /\ mem[i] = 0
    /\ res.reason = "file too small"

\* the reason the first failing check of the specification gives, "" if none
ExpectedReason ==
    IF size < 64 THEN "file too small"
    ELSE IF ~(prev[0] = 77 /\ prev[1] = 90) THEN "not a PE file (MZ missing)"
    ELSE IF UnsignedLfanewOutOfRange(LfanewBefore, size) THEN "invalid e_lfanew"
    ELSE IF ~( /\ prev[LfanewBefore] = 80 /\ prev[LfanewBefore + 1] = 69
               /\ prev[LfanewBefore + 2] = 0 /\ prev[LfanewBefore + 3] = 0 )
         THEN "PE signature missing"
    ELSE IF MagicBefore \notin {267, 523} THEN "unknown PE optional header type"
    ELSE ""

\* C9: the checks run in the order length, DOS signature, e_lfanew bound, PE
\* signature, magic; the first that fails gives the reason; on a failure the
\* buffer is unchanged and modified = false.
C9_FirstFailingCheck ==
    Returned =>
        /\ res.reason = ExpectedReason
        /\ res.ok = (ExpectedReason = "")
        /\ ~res.ok => (Changed = {} /\ ~res.modified)

\* C8: process_file writes the file and creates or overwrites the backup
\* only after the patcher returned success with modified = true.
C8_WriteOnlyWhenModified ==
    [][(disk' # disk \/ bak' # bak) => (pc \in {"backup", "write"} /\ res.ok /\ res.modified)]_vars

C8_Witness ==
    /\ pc = "idle"
    /\ res.ok /\ res.modified
    /\ bak.exists
    /\ disk # bak.data
    /\ disk = Buffer(mem, size)

\* C10, for runs in which the patcher touched only the buffer: when
\* process_file reports success the file holds the patched buffer and the
\* backup holds the contents the file had before; when it reports "Write
\* failed" the file holds its original bytes.
C10_ReportFaithful ==
    (accessed \subseteq 0..(size - 1)) =>
        /\ msg.text = "Success! DYNAMIC_BASE cleared. Backup: %s.bak" =>
              /\ disk = Buffer(mem, size)
              /\ bak.exists
              /\ bak.data = Buffer(prev, size)
        /\ msg.text = "Write failed (permission or file in use)" =>
              disk = Buffer(prev, size)

\* every access of the model lies in the memory it models
AccessModelled == accessed \subseteq DOMAIN mem

====
